---- MODULE Spec2Model ----
(***************************************************************************)
(* Task / agent orchestration of joshlacal/Catbird:                        *)
(*   src/copilot-runner.py   CopilotTask, TaskRunner.run_task,             *)
(*                           run_sequential, run_parallel, main            *)
(*   src/parallel-agents.py  Agent, Agent.run, AgentSwarm.spawn_agent,     *)
(*                           execute, _generate_summary                    *)
(* One run of one orchestrator is one behaviour: Init fixes the task list  *)
(* and the options of the run, the actions are the steps of the scheduler  *)
(* loop, of the pool's worker threads and of the collecting thread.        *)
(***************************************************************************)
EXTENDS Integers, Sequences, FiniteSets, TLC

\* ------------------------------------------------------------- bounds
MaxTasks == 3        \* longest task list / swarm explored
MaxWorkers == 2      \* largest --max-workers / --max-agents explored
MaxEngineTasks == 2  \* longest task list of the runs that vary the timeouts
MaxMainTasks == 2    \* most tasks in a loaded document, in the runs of main()
MaxIds == 2          \* longest task-id list of a workflow / of --tasks

\* ---------------------------------------------------- program constants
DefaultTimeout == 120    \* CopilotTask.__init__ timeout default
AgentTimeout == 900      \* Agent.run: subprocess.run(timeout=900)

\* Timeouts a task definition may carry and run times of the external
\* process: 90 s lies between the two task timeouts, 901 s beyond the
\* agents' fixed deadline.
Timeouts == {60, DefaultTimeout}
Durations == {90, 901}
ExitCodes == {0, 1}

\* The approval policy as the loaded document gives it: one flag string, or
\* (JSON array) a list of flag tokens.
\* A string is kept as its words and the blanks between them.
Blank == " "
ApprovalString == [repr |-> "string", tokens |-> <<"--allow-all-tools">>]
ApprovalText == [repr |-> "string", tokens |-> <<"--allow-tool", Blank, "shell">>]
ApprovalList == [repr |-> "list", tokens |-> <<"--allow-tool", "shell">>]
Approvals == {ApprovalString, ApprovalList}

\* What the external process does when it is run: it cannot be spawned
\* (OSError), or it runs for `duration` seconds and exits with `exit`.
NoProc == [spawn |-> FALSE, duration |-> 0, exit |-> -1]
SpawnError == [spawn |-> FALSE, duration |-> 0, exit |-> 0]
ProcOutcomes ==
    {SpawnError} \cup [spawn : {TRUE}, duration : Durations, exit : ExitCodes]

VARIABLES
    mode,             \* "sequential" | "parallel" (TaskRunner) | "swarm" (AgentSwarm)
    stop_on_failure,  \* run_sequential's stop_on_failure
    max_workers,      \* ThreadPoolExecutor(max_workers=...)
    tasks,            \* the task list / self.agents, in declared order
    pc,               \* the scheduler call: "run" | "returned" | "raised"
    idx,              \* run_sequential: position of the for loop (1-based)
    call,             \* per task: the run_task / Agent.run call
    proc,             \* per task: what its external process did (NoProc: none ran)
    status,           \* per agent: Agent.status (swarm only)
    results,          \* the results dict: name -> success
    submitted,        \* pool: number of tasks submitted so far
    worker,           \* pool: the task each worker thread is executing, 0 if idle
    collected,        \* pool: futures already taken from as_completed
    summary,          \* swarm: summary.json as written; NoSummary before
    logged,           \* tasks whose per-task log file has been written
    logs,             \* the per-task log files: path -> what was last written
    os,               \* the command lines run, and processes left running
    agent_id,         \* per agent: Agent.agent_id (swarm only)
    cancelled,        \* KeyboardInterrupt has reached the main thread
    installed,        \* `which copilot` succeeds
    command,          \* args.command
    loaded,           \* the tasks / agent entries of the loaded document
    args,             \* from-file: how the tasks to run are selected
    exit_code         \* the process exit code; NoExit while it runs

\* What main() reads and sets around the scheduler call.
mainvars == <<installed, command, loaded, args, exit_code>>

vars == <<mode, stop_on_failure, max_workers, tasks, pc, idx, call, proc,
          status, results, submitted, worker, collected, summary, logged,
          logs, os, agent_id, cancelled, mainvars>>

NoExit == -1

NoSummary == [written |-> FALSE]

\* ------------------------------------------------------------ helpers
N == Len(tasks)
Idx == 1..N

Max(S) == CHOOSE x \in S : \A y \in S : y <= x
Min(S) == CHOOSE x \in S : \A y \in S : x <= y

\* dict[key] = value
Put(d, key, value) ==
    [k \in DOMAIN d \cup {key} |-> IF k = key THEN value ELSE d[k]]

\* sum(1 for v in d.values() if v)
CountTrue(d) == Cardinality({k \in DOMAIN d : d[k]})

\* Names are compared only for equality (dict keys, file names), so task
\* lists are enumerated up to renaming: the first task is named 1 and each
\* later task carries an earlier name or the next unused one.
CanonicalNames(ts) ==
    \A i \in DOMAIN ts :
        ts[i].name <= 1 + Max({0} \cup {ts[j].name : j \in 1..(i - 1)})

\* A task definition: CopilotTask's name, approval and timeout; for an agent,
\* the name and approval spawn_agent is given, and the timeout its
\* configuration entry names (Agent keeps none).
TaskDefsWith(maxlen, approvals, timeouts, prompts) ==
    [name : 1..maxlen, approval : approvals, timeout : timeouts,
     prompt : prompts]

TaskDefsOf(maxlen, timeouts, prompts) ==
    TaskDefsWith(maxlen, Approvals, timeouts, prompts)

\* The prompt of a task / the task text of an agent, when it has one.
Prompt == "check"

TaskDefs(maxlen, timeouts) == TaskDefsOf(maxlen, timeouts, {Prompt})

TaskListsOf(defs, maxlen) ==
    {ts \in UNION {[1..n -> defs] : n \in 0..maxlen} : CanonicalNames(ts)}

TaskLists(maxlen, timeouts) == TaskListsOf(TaskDefs(maxlen, timeouts), maxlen)

\* Task lists whose names are pairwise distinct.
UniqueNames(ts) == \A i \in DOMAIN ts : ts[i].name = i

\* --------------------------------------------------- execution engine
\* run_task: task.approval.split() is evaluated before the try block and
\* raises AttributeError on a list.
RunTaskRaises(task) == task.approval.repr # "string"

\* Agent.run: `if self.approval:` then self.approval.startswith("--"), before
\* the try block: AttributeError on a non-empty list.
AgentRunRaises(task) ==
    task.approval.repr # "string" /\ task.approval.tokens # <<>>

\* Mutant of RunTaskDeadline: the default timeout whatever the task names.
RunTaskDeadlineDefault(task) == DefaultTimeout

\* The deadline handed to subprocess.run.
RunTaskDeadline(task) == task.timeout
AgentDeadline(task) == AgentTimeout

Deadline(task) ==
    IF mode = "swarm" THEN AgentDeadline(task) ELSE RunTaskDeadline(task)

Raises(task) ==
    IF mode = "swarm" THEN AgentRunRaises(task) ELSE RunTaskRaises(task)

\* The except paths merged into the normal one: whatever did not exit 0
\* counts as failed.
ClassifyByExitOnly(p, deadline) ==
    IF p.spawn /\ p.exit = 0 THEN "completed" ELSE "failed"

\* The branch of the try statement taken for process outcome p.
Classify(p, deadline) ==
    IF ~p.spawn THEN "error"
    ELSE IF p.duration > deadline THEN "timeout"
    ELSE IF p.exit = 0 THEN "completed"
    ELSE "failed"

\* Only the normal path of the try writes the log.
WritesLogNormalPath(path) == path \in {"completed", "failed"}

\* Whether the path taken writes the per-task log: each of the three has
\* its own `with open(log, 'w')` block.
WritesLog(path) == path \in {"completed", "failed", "timeout", "error"}

\* A one-word string.
Str(word) == <<word>>

\* str.split(): the words of the text, each a string of its own.
Split(text) ==
    LET words == SelectSeq(text, LAMBDA x : x # Blank)
    IN  [k \in 1..Len(words) |-> Str(words[k])]

\* str.startswith("--")
StartsWithDashes(text) ==
    text # << >> /\ Head(text) \in {"--allow-all-tools", "--allow-tool"}

\* run_task: cmd = ["copilot", "-p", task.prompt]; cmd.extend(approval.split())
RunTaskArgs(task) ==
    <<Str("copilot"), Str("-p"), Str(task.prompt)>> \o Split(task.approval.tokens)

\* Agent.run: cmd = ["copilot", "-p", self.task, "--allow-all-paths"], then
\* the approval string appended whole if it starts with "--", split if not.
AgentArgs(task) ==
    <<Str("copilot"), Str("-p"), Str(task.prompt), Str("--allow-all-paths")>>
    \o (IF task.approval.tokens = << >> THEN << >>
        ELSE IF StartsWithDashes(task.approval.tokens)
               THEN <<task.approval.tokens>>
               ELSE Split(task.approval.tokens))

BuildArgs(task) == IF mode = "swarm" THEN AgentArgs(task) ELSE RunTaskArgs(task)

\* The log file of task i: results_dir / task_{name}_{run timestamp}.log for
\* run_task, workspace / agent_{id}_{name}.log for an agent.
LogPath(i) ==
    IF mode = "swarm" THEN <<"agent", agent_id[i], tasks[i].name>>
                      ELSE <<"task", tasks[i].name>>

\* The timeout path writing the exit code of the process it killed.
LogRecordAlwaysExitCode(i, path, p) ==
    [name |-> tasks[i].name, exit_code |-> p.exit]

\* What the path taken writes to the log: the normal path the exit code and
\* the output, the except paths a line naming the timeout / the exception.
LogRecord(i, path, p) ==
    CASE path \in {"completed", "failed"} ->
            [name |-> tasks[i].name, exit_code |-> p.exit]
      [] path = "timeout" -> [name |-> tasks[i].name, timeout |-> TRUE]
      [] OTHER -> [name |-> tasks[i].name, error |-> TRUE]

\* open(log, 'w'): the file is created or overwritten.
WriteLog(files, i, path, p) ==
    IF WritesLog(path) THEN Put(files, LogPath(i), LogRecord(i, path, p))
    ELSE files

\* subprocess.run(cmd, timeout=...) has been called for task i. On
\* TimeoutExpired it kills the process it started and waits for it; what
\* that process has started itself is not signalled and may run on.
AfterRun(o, i, path) ==
    LET ran == [o EXCEPT !.argv = Put(@, i, BuildArgs(tasks[i]))] IN
    IF path = "timeout" /\ o.forks
        THEN {ran, [ran EXCEPT !.orphans = @ \cup {i}]}
        ELSE {ran}

\* No command run yet; forks: whether the tool starts processes of its own.
NoneRun(forks) == [forks |-> forks, orphans |-> {}, argv |-> << >>]

\* success = result.returncode == 0; False on the two except paths.
Success(p, deadline) == Classify(p, deadline) = "completed"

\* The state of a call that ran process p: it returned success or not.
Returned(p, deadline) ==
    IF Success(p, deadline) THEN "returned_true" ELSE "returned_false"

CallEnded(i) == call[i] \in {"returned_true", "returned_false", "raised"}

\* Mutant of OverallSuccess: any() in place of all().
OverallSuccessAny(r) == \E k \in DOMAIN r : r[k]

\* all(results.values())
OverallSuccess(r) == \A k \in DOMAIN r : r[k]

\* ---------------------------------------------------------- spawn_agent
\* Mutant of AgentId: every agent is given the same id.
AgentIdFixed(ids) == 0

\* spawn_agent: agent_id=len(self.agents), ids being those of the agents
\* spawned so far.
AgentId(ids) == Len(ids)

\* The ids after n calls of spawn_agent on a new swarm, each call appending
\* its agent to self.agents.
RECURSIVE SpawnAll(_)
SpawnAll(n) ==
    IF n = 0 THEN << >>
    ELSE LET ids == SpawnAll(n - 1) IN Append(ids, AgentId(ids))

\* ---------------------------------------------------------------- Init
\* from-file without --workflow and without --tasks: every loaded task, in
\* the mode --sequential selects.
RunsAll(sequential) ==
    [selector |-> "all", ids |-> << >>, wf_mode |-> "absent",
     sequential |-> sequential]

InitRunOf(modes, lists, workers, forks) ==
    /\ mode \in modes
    /\ stop_on_failure \in (IF mode = "sequential" THEN BOOLEAN ELSE {FALSE})
    /\ max_workers \in (IF mode = "sequential" THEN {1} ELSE workers)
    /\ tasks \in lists
    /\ pc = "run"
    /\ idx = 1
    /\ call = [i \in Idx |-> "pending"]
    /\ proc = [i \in Idx |-> NoProc]
    /\ status = [i \in Idx |-> "pending"]
    /\ results = << >>
    /\ submitted = 0
    /\ worker = [w \in 1..max_workers |-> 0]
    /\ collected = {}
    /\ summary = NoSummary
    /\ logged = {}
    /\ logs = << >>
    /\ os = NoneRun(forks)
    /\ agent_id = (IF mode = "swarm" THEN SpawnAll(Len(tasks)) ELSE << >>)
    /\ cancelled = FALSE
    /\ installed = TRUE
    /\ command = (IF mode = "swarm" THEN "from-config" ELSE "from-file")
    /\ loaded = tasks
    /\ args = RunsAll(mode = "sequential")
    /\ exit_code = NoExit

\* The same, with a tool that starts no processes of its own.
InitRun(modes, lists, workers) == InitRunOf(modes, lists, workers, FALSE)

\* ------------------------------------------------------ run_sequential
\* Mutant of Break: the loop never breaks.
BreakNever(success, stop) == FALSE

\* The stop-on-failure test of the loop body.
Break(success, stop) == ~success /\ stop

\* Mutant of SeqStart: the loop moves on without waiting for the call.
SeqStartAsync ==
    /\ mode = "sequential" /\ pc = "run"
    /\ idx <= N
    /\ call[idx] = "pending"
    /\ call' = [call EXCEPT ![idx] = "running"]
    /\ idx' = IF idx < N THEN idx + 1 ELSE idx
    /\ UNCHANGED <<mode, stop_on_failure, max_workers, tasks, pc, proc,
                   status, results, submitted, worker, collected, summary>>
    /\ UNCHANGED <<logged, logs, os, agent_id, cancelled, mainvars>>

\* Mutant of SeqStart: entering the call rewrites the task's approval.
SeqStartNormalising ==
    /\ mode = "sequential" /\ pc = "run"
    /\ idx <= N
    /\ call[idx] = "pending"
    /\ call' = [call EXCEPT ![idx] = "running"]
    /\ tasks' = [tasks EXCEPT ![idx].approval = ApprovalString]
    /\ UNCHANGED <<mode, stop_on_failure, max_workers, pc, idx, proc,
                   status, results, submitted, worker, collected, summary>>
    /\ UNCHANGED <<logged, logs, os, agent_id, cancelled, mainvars>>

\* for task in tasks: enter self.run_task(task).
SeqStart ==
    /\ mode = "sequential" /\ pc = "run"
    /\ idx <= N
    /\ call[idx] = "pending"
    /\ call' = [call EXCEPT ![idx] = "running"]
    /\ UNCHANGED <<mode, stop_on_failure, max_workers, tasks, pc, idx, proc,
                   status, results, submitted, worker, collected, summary>>
    /\ UNCHANGED <<logged, logs, os, agent_id, cancelled, mainvars>>

\* run_task raises before its try block: the exception leaves the loop and
\* run_sequential.
SeqRaise ==
    /\ mode = "sequential" /\ pc = "run"
    /\ idx <= N
    /\ call[idx] = "running"
    /\ Raises(tasks[idx])
    /\ call' = [call EXCEPT ![idx] = "raised"]
    /\ pc' = "raised"
    /\ UNCHANGED <<mode, stop_on_failure, max_workers, tasks, idx, proc,
                   status, results, submitted, worker, collected, summary>>
    /\ UNCHANGED <<logged, logs, os, agent_id, cancelled, mainvars>>

\* run_task returns; results[task.name] = success; break or next task.
SeqFinish ==
    /\ mode = "sequential" /\ pc = "run"
    /\ idx <= N
    /\ call[idx] = "running"
    /\ ~Raises(tasks[idx])
    /\ \E p \in ProcOutcomes :
        LET d == Deadline(tasks[idx])
            success == Success(p, d) IN
        /\ proc' = [proc EXCEPT ![idx] = p]
        /\ call' = [call EXCEPT ![idx] = Returned(p, d)]
        /\ results' = Put(results, tasks[idx].name, success)
        /\ logged' = IF WritesLog(Classify(p, d))
                       THEN logged \cup {idx} ELSE logged
        /\ logs' = WriteLog(logs, idx, Classify(p, d), p)
        /\ os' \in AfterRun(os, idx, Classify(p, d))
        /\ IF Break(success, stop_on_failure)
             THEN pc' = "returned" /\ idx' = idx
             ELSE pc' = pc /\ idx' = idx + 1
    /\ UNCHANGED <<mode, stop_on_failure, max_workers, tasks, status,
                   submitted, worker, collected, summary>>
    /\ UNCHANGED <<agent_id, cancelled, mainvars>>

\* The loop is exhausted: return results.
SeqReturn ==
    /\ mode = "sequential" /\ pc = "run"
    /\ idx > N
    /\ pc' = "returned"
    /\ UNCHANGED <<mode, stop_on_failure, max_workers, tasks, idx, call, proc,
                   status, results, submitted, worker, collected, summary>>
    /\ UNCHANGED <<logged, logs, os, agent_id, cancelled, mainvars>>

NextSeq == SeqStart \/ SeqRaise \/ SeqFinish \/ SeqReturn

InitSeq == InitRun({"sequential"}, TaskLists(MaxTasks, {DefaultTimeout}), {1})

SpecSeq == InitSeq /\ [][NextSeq]_vars

\* ------------------------------------- run_parallel / AgentSwarm.execute
Pooled == mode \in {"parallel", "swarm"}

\* ThreadPoolExecutor(max_workers=...): the number of worker threads.
PoolSize == max_workers

Workers == 1..PoolSize

\* A pool without a queue: what does not find a worker thread of its own is
\* never taken.
QueuedFirstBatch ==
    {i \in 1..submitted : call[i] = "pending" /\ i <= max_workers}

\* Submitted tasks no worker has taken yet; the pool's queue is FIFO.
Queued == {i \in 1..submitted : call[i] = "pending"}

\* executor.submit(...) for the next task of the dict comprehension.
Submit ==
    /\ Pooled /\ pc = "run"
    /\ submitted < N
    /\ submitted' = submitted + 1
    /\ UNCHANGED <<mode, stop_on_failure, max_workers, tasks, pc, idx, call,
                   proc, status, results, worker, collected, summary>>
    /\ UNCHANGED <<logged, logs, os, agent_id, cancelled, mainvars>>

\* The worker threads serve the queue while the with block is open, and
\* until its exit (shutdown(wait=True)) has returned.
PoolAlive == Pooled /\ pc \in {"run", "interrupted"}

\* An idle worker thread takes the head of the queue and enters
\* run_task / Agent.run (self.status = "running").
WorkerStart(w) ==
    /\ PoolAlive
    /\ worker[w] = 0
    /\ Queued # {}
    /\ LET i == Min(Queued) IN
        /\ worker' = [worker EXCEPT ![w] = i]
        /\ call' = [call EXCEPT ![i] = "running"]
        /\ status' = IF mode = "swarm"
                       THEN [status EXCEPT ![i] = "running"] ELSE status
    /\ UNCHANGED <<mode, stop_on_failure, max_workers, tasks, pc, idx, proc,
                   results, submitted, collected, summary>>
    /\ UNCHANGED <<logged, logs, os, agent_id, cancelled, mainvars>>

\* The call raises before its try block: the future holds the exception,
\* Agent.status is left as it is.
WorkerRaise(w) ==
    /\ PoolAlive
    /\ worker[w] # 0
    /\ Raises(tasks[worker[w]])
    /\ call' = [call EXCEPT ![worker[w]] = "raised"]
    /\ worker' = [worker EXCEPT ![w] = 0]
    /\ UNCHANGED <<mode, stop_on_failure, max_workers, tasks, pc, idx, proc,
                   status, results, submitted, collected, summary>>
    /\ UNCHANGED <<logged, logs, os, agent_id, cancelled, mainvars>>

\* Mutant of WorkerFinish: the worker thread stores its own result.
WorkerFinishStoring(w) ==
    /\ PoolAlive
    /\ worker[w] # 0
    /\ ~Raises(tasks[worker[w]])
    /\ \E p \in ProcOutcomes :
        LET i == worker[w]
            d == Deadline(tasks[i]) IN
        /\ proc' = [proc EXCEPT ![i] = p]
        /\ call' = [call EXCEPT ![i] = Returned(p, d)]
        /\ status' = IF mode = "swarm"
                       THEN [status EXCEPT ![i] = Classify(p, d)] ELSE status
        /\ logged' = IF WritesLog(Classify(p, d))
                       THEN logged \cup {i} ELSE logged
        /\ logs' = WriteLog(logs, i, Classify(p, d), p)
        /\ os' \in AfterRun(os, i, Classify(p, d))
        /\ results' = Put(results, tasks[i].name, Success(p, d))
    /\ worker' = [worker EXCEPT ![w] = 0]
    /\ UNCHANGED <<mode, stop_on_failure, max_workers, tasks, pc, idx,
                   submitted, collected, summary>>
    /\ UNCHANGED <<agent_id, cancelled, mainvars>>

\* The call returns (success, ...): one of the three paths of the try.
WorkerFinish(w) ==
    /\ PoolAlive
    /\ worker[w] # 0
    /\ ~Raises(tasks[worker[w]])
    /\ \E p \in ProcOutcomes :
        LET i == worker[w]
            d == Deadline(tasks[i]) IN
        /\ proc' = [proc EXCEPT ![i] = p]
        /\ call' = [call EXCEPT ![i] = Returned(p, d)]
        /\ status' = IF mode = "swarm"
                       THEN [status EXCEPT ![i] = Classify(p, d)] ELSE status
        /\ logged' = IF WritesLog(Classify(p, d))
                       THEN logged \cup {i} ELSE logged
        /\ logs' = WriteLog(logs, i, Classify(p, d), p)
        /\ os' \in AfterRun(os, i, Classify(p, d))
    /\ worker' = [worker EXCEPT ![w] = 0]
    /\ UNCHANGED <<mode, stop_on_failure, max_workers, tasks, pc, idx,
                   results, submitted, collected, summary>>
    /\ UNCHANGED <<agent_id, cancelled, mainvars>>

\* What the collecting loop stores for a finished future: its success, or
\* False when future.result() raises.
Collected(i) == call[i] = "returned_true"

\* for future in as_completed(...): results[task.name] = ...
Collect(i) ==
    /\ Pooled /\ pc = "run"
    /\ submitted = N
    /\ i \notin collected
    /\ CallEnded(i)
    /\ results' = Put(results, tasks[i].name, Collected(i))
    /\ collected' = collected \cup {i}
    /\ UNCHANGED <<mode, stop_on_failure, max_workers, tasks, pc, idx, call,
                   proc, status, submitted, worker, summary>>
    /\ UNCHANGED <<logged, logs, os, agent_id, cancelled, mainvars>>

\* _generate_summary(results): the document written to summary.json.
GenerateSummary(r) ==
    [written |-> TRUE,
     total_agents |-> N,
     successful |-> CountTrue(r),
     failed |-> Cardinality(DOMAIN r) - CountTrue(r),
     agents |-> [i \in Idx |->
                   [id |-> agent_id[i], name |-> tasks[i].name,
                    status |-> status[i]]]]

\* Mutant of ParReturn: return once everything is submitted.
ParReturnEarly ==
    /\ Pooled /\ pc = "run"
    /\ submitted = N
    /\ pc' = "returned"
    /\ summary' = IF mode = "swarm" /\ N > 0
                    THEN GenerateSummary(results) ELSE summary
    /\ UNCHANGED <<mode, stop_on_failure, max_workers, tasks, idx, call, proc,
                   status, results, submitted, worker, collected>>
    /\ UNCHANGED <<logged, logs, os, agent_id, cancelled, mainvars>>

\* Mutant of ParReturn: with stop_on_failure, return at the first
\* unsuccessful result collected.
ParReturnOnFailure ==
    /\ Pooled /\ pc = "run"
    /\ submitted = N
    /\ \/ collected = Idx
       \/ stop_on_failure /\ \E i \in collected : ~Collected(i)
    /\ pc' = "returned"
    /\ summary' = IF mode = "swarm" /\ N > 0
                    THEN GenerateSummary(results) ELSE summary
    /\ UNCHANGED <<mode, stop_on_failure, max_workers, tasks, idx, call, proc,
                   status, results, submitted, worker, collected>>
    /\ UNCHANGED <<logged, logs, os, agent_id, cancelled, mainvars>>

\* as_completed is exhausted and the pool shut down: return results.
\* AgentSwarm.execute writes the summary first, unless it has no agents
\* (`if not self.agents: return {}`).
ParReturn ==
    /\ Pooled /\ pc = "run"
    /\ submitted = N
    /\ collected = Idx
    /\ pc' = "returned"
    /\ summary' = IF mode = "swarm" /\ N > 0
                    THEN GenerateSummary(results) ELSE summary
    /\ UNCHANGED <<mode, stop_on_failure, max_workers, tasks, idx, call, proc,
                   status, results, submitted, worker, collected>>
    /\ UNCHANGED <<logged, logs, os, agent_id, cancelled, mainvars>>

NextPool ==
    \/ Submit
    \/ \E w \in Workers : WorkerStart(w) \/ WorkerRaise(w) \/ WorkerFinish(w)
    \/ \E i \in Idx : Collect(i)
    \/ ParReturn

\* ---------------------------------------------------------- interrupt
\* KeyboardInterrupt reaches the main thread of parallel-agents inside the
\* with block, while it submits or waits in as_completed.
Interrupt ==
    /\ mode = "swarm" /\ pc = "run"
    /\ cancelled' = TRUE
    /\ pc' = "interrupted"
    /\ UNCHANGED <<mode, stop_on_failure, max_workers, tasks, idx, call, proc,
                   status, results, submitted, worker, collected, summary>>
    /\ UNCHANGED <<logged, logs, os, agent_id, mainvars>>

\* The exit of the with block, executor.shutdown(wait=True), returns when
\* the queue is worked off and every worker thread has ended; main catches
\* the KeyboardInterrupt: "Interrupted by user", sys.exit(1).
Shutdown ==
    /\ pc = "interrupted"
    /\ Queued = {}
    /\ \A w \in Workers : worker[w] = 0
    /\ pc' = "exited"
    /\ exit_code' = 1
    /\ UNCHANGED <<mode, stop_on_failure, max_workers, tasks, idx, call, proc,
                   status, results, submitted, worker, collected, summary>>
    /\ UNCHANGED <<logged, logs, os, agent_id, cancelled, installed, command,
                   loaded, args>>

NextCancel == NextPool \/ Interrupt \/ Shutdown

\* ------------------------------------------------------------------ main
\* The loaded tasks that the id list mentions, in the order of the document.
ResolveInLoadedOrder(ids, doc) ==
    LET keep == SelectSeq([i \in 1..Len(doc) |-> i],
                          LAMBDA i : \E k \in DOMAIN ids : ids[k] = i)
    IN  [k \in 1..Len(keep) |-> doc[keep[k]]]

\* [tasks[tid] for tid in ids if tid in tasks]: the comprehension, id by id.
RECURSIVE Resolve(_, _)
Resolve(ids, doc) ==
    IF ids = << >> THEN << >>
    ELSE IF Head(ids) \in DOMAIN doc
           THEN <<doc[Head(ids)]>> \o Resolve(Tail(ids), doc)
           ELSE Resolve(Tail(ids), doc)

\* task_list of the from-file command.
SelectedTasks ==
    IF args.selector \in {"workflow", "tasks"}
        THEN Resolve(args.ids, loaded) ELSE loaded

\* workflow.get('mode', 'sequential')
WorkflowMode(wf_mode) == IF wf_mode = "absent" THEN "sequential" ELSE wf_mode

\* 'sequential' if args.sequential else 'parallel'
FlagMode(sequential) == IF sequential THEN "sequential" ELSE "parallel"

\* mode of the from-file command: a workflow's own mode, else the flag's.
SelectedMode ==
    IF args.selector = "workflow"
        THEN WorkflowMode(args.wf_mode) ELSE FlagMode(args.sequential)

\* A binary check that always passes.
BinaryNeverMissing == FALSE

\* The `which copilot` test.
BinaryMissing == ~installed

\* sys.exit(0 if all(results.values()) else 1)
ExitCode(r) == IF OverallSuccess(r) THEN 0 ELSE 1

\* The binary is not found: print the error, sys.exit(1).
MainMissing ==
    /\ pc = "main"
    /\ BinaryMissing
    /\ pc' = "exited"
    /\ exit_code' = 1
    /\ UNCHANGED <<mode, stop_on_failure, max_workers, tasks, idx, call, proc,
                   status, results, submitted, worker, collected, summary>>
    /\ UNCHANGED <<logged, logs, os, agent_id, cancelled, installed, command,
                   loaded, args>>

\* Mutant of ExitsBeforeRun: a workflow name is never found missing.
ExitsBeforeRunWorkflowKnown ==
    \/ command = "none"
    \/ command = "interactive" /\ (args.selector = "cancel" \/ loaded = << >>)

\* The paths of main() that exit without calling the scheduler: no command
\* (print_help), a workflow that is not defined, 'cancel' in interactive
\* mode: sys.exit(1); interactive mode with no agent entered: sys.exit(0).
ExitsBeforeRun ==
    \/ command = "none"
    \/ command = "from-file" /\ args.selector = "undefined"
    \/ command = "interactive" /\ (args.selector = "cancel" \/ loaded = << >>)

MainExitBeforeRun ==
    /\ pc = "main"
    /\ ~BinaryMissing
    /\ ExitsBeforeRun
    /\ pc' = "exited"
    /\ exit_code' = IF command = "interactive" /\ args.selector # "cancel"
                      THEN 0 ELSE 1
    /\ UNCHANGED <<mode, stop_on_failure, max_workers, tasks, idx, call, proc,
                   status, results, submitted, worker, collected, summary>>
    /\ UNCHANGED <<logged, logs, os, agent_id, cancelled, installed, command,
                   loaded, args>>

\* main() builds the task list (or spawns the agents) and calls
\* run_task / run_sequential / run_parallel / swarm.execute.
MainDispatch ==
    /\ pc = "main"
    /\ ~BinaryMissing
    /\ ~ExitsBeforeRun
    /\ tasks' = (IF command = "from-file" THEN SelectedTasks ELSE loaded)
    /\ mode' = (IF command = "from-file" THEN SelectedMode
                ELSE IF command = "single" THEN "single" ELSE "swarm")
    /\ call' = [i \in 1..Len(tasks') |-> "pending"]
    /\ proc' = [i \in 1..Len(tasks') |-> NoProc]
    /\ status' = [i \in 1..Len(tasks') |-> "pending"]
    /\ agent_id' = (IF mode' = "swarm" THEN SpawnAll(Len(tasks')) ELSE << >>)
    /\ pc' = "run"
    /\ UNCHANGED <<stop_on_failure, max_workers, idx, results, submitted,
                   worker, collected, summary>>
    /\ UNCHANGED <<logged, logs, os, cancelled, mainvars>>

\* single: runner.run_task(task) is entered.
SingleStart ==
    /\ mode = "single" /\ pc = "run"
    /\ call[1] = "pending"
    /\ call' = [call EXCEPT ![1] = "running"]
    /\ UNCHANGED <<mode, stop_on_failure, max_workers, tasks, pc, idx, proc,
                   status, results, submitted, worker, collected, summary>>
    /\ UNCHANGED <<logged, logs, os, agent_id, cancelled, mainvars>>

\* single: run_task returns; sys.exit(0 if success else 1).
SingleFinish ==
    /\ mode = "single" /\ pc = "run"
    /\ call[1] = "running"
    /\ \E p \in ProcOutcomes :
        LET d == Deadline(tasks[1]) IN
        /\ proc' = [proc EXCEPT ![1] = p]
        /\ call' = [call EXCEPT ![1] = Returned(p, d)]
        /\ logged' = IF WritesLog(Classify(p, d))
                       THEN logged \cup {1} ELSE logged
        /\ logs' = WriteLog(logs, 1, Classify(p, d), p)
        /\ os' \in AfterRun(os, 1, Classify(p, d))
        /\ exit_code' = IF Success(p, d) THEN 0 ELSE 1
    /\ pc' = "exited"
    /\ UNCHANGED <<mode, stop_on_failure, max_workers, tasks, idx, status,
                   results, submitted, worker, collected, summary>>
    /\ UNCHANGED <<agent_id, cancelled, installed, command, loaded, args>>

\* The scheduler has returned its results: sys.exit(0 if all(...) else 1).
MainExit ==
    /\ pc = "returned"
    /\ pc' = "exited"
    /\ exit_code' = ExitCode(results)
    /\ UNCHANGED <<mode, stop_on_failure, max_workers, tasks, idx, call, proc,
                   status, results, submitted, worker, collected, summary>>
    /\ UNCHANGED <<logged, logs, os, agent_id, cancelled, installed, command,
                   loaded, args>>

\* An exception has left the scheduler: copilot-runner ends with the
\* traceback, parallel-agents with "Fatal error"; exit code 1 in both.
MainRaised ==
    /\ pc = "raised"
    /\ pc' = "exited"
    /\ exit_code' = 1
    /\ UNCHANGED <<mode, stop_on_failure, max_workers, tasks, idx, call, proc,
                   status, results, submitted, worker, collected, summary>>
    /\ UNCHANGED <<logged, logs, os, agent_id, cancelled, installed, command,
                   loaded, args>>

NextMain ==
    \/ MainMissing \/ MainExitBeforeRun \/ MainDispatch
    \/ SingleStart \/ SingleFinish
    \/ NextSeq \/ NextPool
    \/ MainExit \/ MainRaised

\* ------------------------------------------------------ inputs of main
Commands ==
    {"none", "single", "from-file", "quick", "from-config", "interactive"}

StringApprovals(ts) == \A i \in DOMAIN ts : ts[i].approval.repr = "string"

\* Task-id lists: ids 1..n are loaded, 0 stands for an id that is not.
IdLists(n, minlen) ==
    UNION {[1..k -> 0..n] : k \in minlen..MaxIds}

\* What each command can hand to the scheduler: single builds one task from
\* the command line, quick names its agents agent-{i} with one approval
\* string, interactive reads strings; the two documents may hold anything.
LoadedFor(cmd) ==
    LET all == TaskLists(MaxMainTasks, {DefaultTimeout}) IN
    CASE cmd = "none" -> {<< >>}
      [] cmd = "single" -> {ts \in all : Len(ts) = 1 /\ StringApprovals(ts)}
      [] cmd = "quick" ->
            {ts \in all : Len(ts) >= 1 /\ StringApprovals(ts) /\ UniqueNames(ts)}
      [] cmd = "interactive" -> {ts \in all : StringApprovals(ts)}
      [] OTHER -> all

\* The parsed arguments: --workflow NAME (defined or not, with the mode and
\* the ids the document gives it), --tasks IDS, neither, each with or
\* without --sequential; what is typed in interactive mode.
ArgsFor(cmd, doc) ==
    CASE cmd = "from-file" ->
            {RunsAll(seq) : seq \in BOOLEAN}
            \cup [selector : {"undefined"}, ids : {<< >>},
                  wf_mode : {"absent"}, sequential : BOOLEAN]
            \cup [selector : {"tasks"}, ids : IdLists(Len(doc), 1),
                  wf_mode : {"absent"}, sequential : BOOLEAN]
            \cup [selector : {"workflow"}, ids : IdLists(Len(doc), 0),
                  wf_mode : {"absent", "sequential", "parallel"},
                  sequential : BOOLEAN]
      [] cmd = "interactive" ->
            {RunsAll(FALSE), [RunsAll(FALSE) EXCEPT !.selector = "cancel"]}
      [] OTHER -> {RunsAll(FALSE)}

InitMainOf(cmds, selectors, docs, workers) ==
    /\ installed \in BOOLEAN
    /\ command \in cmds
    /\ loaded \in LoadedFor(command) \cap docs
    /\ args \in {a \in ArgsFor(command, loaded) : a.selector \in selectors}
    /\ stop_on_failure \in (IF command = "from-file" THEN BOOLEAN ELSE {FALSE})
    /\ max_workers \in workers
    /\ mode = "unresolved"
    /\ tasks = << >>
    /\ pc = "main"
    /\ idx = 1
    /\ call = << >>
    /\ proc = << >>
    /\ status = << >>
    /\ results = << >>
    /\ submitted = 0
    /\ worker = [w \in 1..max_workers |-> 0]
    /\ collected = {}
    /\ summary = NoSummary
    /\ logged = {}
    /\ logs = << >>
    /\ os = NoneRun(FALSE)
    /\ agent_id = << >>
    /\ cancelled = FALSE
    /\ exit_code = NoExit

\* Every command of both programs, over the whole loaded document.
InitMain ==
    InitMainOf(Commands, {"all", "undefined", "cancel"},
               TaskLists(MaxMainTasks, {DefaultTimeout}), 1..MaxWorkers)

\* One run of either program, from the parsed command line to sys.exit.
SpecMain == InitMain /\ [][NextMain]_vars

\* from-file with --workflow or --tasks, over documents whose tasks each
\* have a name of their own.
InitWorkflow ==
    InitMainOf({"from-file"}, {"workflow", "tasks", "undefined"},
               {ts \in TaskLists(MaxMainTasks, {DefaultTimeout}) :
                    UniqueNames(ts)},
               {MaxWorkers})

NextWorkflow ==
    \/ MainMissing \/ MainExitBeforeRun \/ MainDispatch
    \/ NextSeq \/ NextPool
    \/ MainExit \/ MainRaised

SpecWorkflow == InitWorkflow /\ [][NextWorkflow]_vars

AllModes == {"sequential", "parallel", "swarm"}

\* TaskRunner.run_parallel, every task list up to renaming.
InitPar ==
    InitRun({"parallel"}, TaskLists(MaxTasks, {DefaultTimeout}), 1..MaxWorkers)
SpecPar == InitPar /\ [][NextPool]_vars

\* AgentSwarm.execute, every agent list up to renaming.
InitSwarm ==
    InitRun({"swarm"}, TaskLists(MaxTasks, {DefaultTimeout}), 1..MaxWorkers)
SpecSwarm == InitSwarm /\ [][NextPool]_vars

\* AgentSwarm.execute under a caller's interrupt.
InitCancel ==
    InitRun({"swarm"}, TaskLists(MaxMainTasks, {DefaultTimeout}), 1..MaxWorkers)
SpecCancel == InitCancel /\ [][NextCancel]_vars

Next == NextSeq \/ NextPool

\* Every orchestrator and mode, task names pairwise distinct.
InitUnique ==
    InitRun(AllModes,
            {ts \in TaskLists(MaxTasks, {DefaultTimeout}) : UniqueNames(ts)},
            1..MaxWorkers)
SpecUnique == InitUnique /\ [][Next]_vars

\* Every orchestrator and mode, short task lists, every timeout.
InitEngine ==
    InitRun(AllModes, TaskLists(MaxEngineTasks, Timeouts), 1..MaxWorkers)
SpecEngine == InitEngine /\ [][Next]_vars

\* Every orchestrator and mode, short task lists whose definitions may
\* carry an empty prompt or a timeout of 0: neither constructor rejects them.
InitValidation ==
    InitRun(AllModes,
            TaskListsOf(TaskDefsOf(MaxEngineTasks, {0, DefaultTimeout},
                                   {"", Prompt}),
                        MaxEngineTasks),
            1..MaxWorkers)
SpecValidation == InitValidation /\ [][Next]_vars

\* Every orchestrator and mode, short task lists, every timeout, and a tool
\* that starts processes of its own (shells, builds).
InitTimeout ==
    InitRunOf(AllModes, TaskLists(MaxEngineTasks, Timeouts), 1..MaxWorkers,
              TRUE)
SpecTimeout == InitTimeout /\ [][Next]_vars

\* Every orchestrator and mode, short task lists, the approval policy given
\* as a one-flag string, as a string of two words, or as a list of tokens.
InitArgs ==
    InitRun(AllModes,
            TaskListsOf(TaskDefsWith(MaxEngineTasks,
                                     Approvals \cup {ApprovalText},
                                     {DefaultTimeout}, {Prompt}),
                        MaxEngineTasks),
            1..MaxWorkers)
SpecArgs == InitArgs /\ [][Next]_vars

\* run_parallel and AgentSwarm.execute, short task lists, where the threads
\* keep being scheduled and every process exits or meets its deadline: the
\* run does not stop while one of its steps can be taken.
InitLive ==
    InitRun({"parallel", "swarm"}, TaskLists(MaxEngineTasks, {DefaultTimeout}),
            1..MaxWorkers)
SpecLive == InitLive /\ [][NextPool]_vars /\ WF_vars(NextPool)

\* Every orchestrator and mode, every task list up to renaming.
Init == InitRun(AllModes, TaskLists(MaxTasks, {DefaultTimeout}), 1..MaxWorkers)
Spec == Init /\ [][Next]_vars

\* ============================================================== claims
Dispatched == {i \in Idx : call[i] # "pending"}
Running == {i \in Idx : call[i] = "running"}

\* The pool never executes more calls than it has worker threads, and no
\* two workers execute the same call.
PoolBound ==
    /\ Cardinality(Running) <= max_workers
    /\ Pooled => Running = {worker[w] : w \in Workers} \ {0}
    /\ \A v, w \in Workers : worker[v] # 0 /\ worker[v] = worker[w] => v = w

\* C1 (as claimed): a parallel run of N tasks returns a result set of exactly
\* N entries, one per dispatched task.
C1_OneEntryPerTask ==
    Pooled /\ pc = "returned" => Cardinality(DOMAIN results) = N

\* C2: sequential mode with stop_on_failure halts at the first task that does
\* not complete: the run has returned (or the exception has left it), every
\* earlier task completed, no later task was started or ran a process, and
\* the results are those of the tasks up to it, False for the failing one.
C2_StopOnFailureHalts ==
    mode = "sequential" /\ stop_on_failure =>
        \A k \in Idx :
            /\ call[k] \in {"returned_false", "raised"} =>
                /\ pc = (IF call[k] = "raised" THEN "raised" ELSE "returned")
                /\ \A j \in 1..(k - 1) : call[j] = "returned_true"
                /\ \A j \in (k + 1)..N : call[j] = "pending" /\ proc[j] = NoProc
            /\ call[k] = "returned_false" =>
                /\ DOMAIN results = {tasks[j].name : j \in 1..k}
                /\ results[tasks[k].name] = FALSE
                /\ \A n \in DOMAIN results \ {tasks[k].name} : results[n] = TRUE

\* [T1 exit 0, T2 exit 1, T3 exit 0] with stop_on_failure has returned
\* {T1: True, T2: False}, T3 never started.
C2_Witness ==
    /\ mode = "sequential" /\ stop_on_failure /\ pc = "returned"
    /\ N = 3
    /\ call = <<"returned_true", "returned_false", "pending">>
    /\ proc[1].exit = 0 /\ proc[2].exit = 1 /\ proc[2].duration = 90
    /\ results = (1 :> TRUE @@ 2 :> FALSE)

\* C3 (as claimed): when the run returns, all(results.values()) is true
\* exactly when every dispatched task completed.
C3_OverallSuccessIff ==
    pc = "returned" =>
        (OverallSuccess(results) <=>
            \A i \in Dispatched : call[i] = "returned_true")

\* C4 (as claimed): in the summary written, successful + failed equals
\* total_agents.
C4_SummaryCountsAddUp ==
    summary.written =>
        summary.successful + summary.failed = summary.total_agents

C6_VacuousSuccess ==
    pc = "returned" /\ Dispatched = {} =>
        /\ N = 0
        /\ DOMAIN results = {}
        /\ OverallSuccess(results)

\* The swarm has returned from execute with no agents.
C6_Witness == mode = "swarm" /\ N = 0 /\ pc = "returned"

\* C7 (as claimed): no more than max_workers agents have status running at
\* any instant.
C7_AtMostMaxWorkersRunning ==
    mode = "swarm" =>
        Cardinality({i \in Idx : status[i] = "running"}) <= max_workers

\* C8: sequential mode starts the tasks in declared order, each only after
\* every earlier call has returned, so at most one call is in progress.
C8_SequentialOrder ==
    mode = "sequential" =>
        /\ Cardinality(Running) <= 1
        /\ \A i, j \in Idx :
            i < j /\ call[j] # "pending" =>
                call[i] \in {"returned_true", "returned_false"}

\* The third task is running, the first two have returned.
C8_Witness ==
    /\ mode = "sequential" /\ N = 3
    /\ call[1] = "returned_false" /\ call[2] = "returned_true"
    /\ call[3] = "running"

\* C9 (as claimed): a sequential run without stop_on_failure executes every
\* task, and the result under each task's name is that task's own outcome.
C9_EveryTaskOwnResult ==
    mode = "sequential" /\ ~stop_on_failure /\ pc # "run" =>
        \A i \in Idx :
            /\ call[i] \in {"returned_true", "returned_false"}
            /\ tasks[i].name \in DOMAIN results
            /\ results[tasks[i].name] = (call[i] = "returned_true")

\* C10 (as claimed): no task's failure leaves the scheduler as an exception,
\* and a parallel or non-stopping sequential run ends with every task
\* dispatched and recorded.
C10_Isolation ==
    /\ pc # "raised"
    /\ (Pooled \/ ~stop_on_failure) /\ pc = "returned" =>
        \A i \in Idx : CallEnded(i) /\ tasks[i].name \in DOMAIN results

\* C11 (as claimed): a run that was made exits 0 exactly when every task it
\* dispatched completed (overallSuccess), on every command path.
C11_ExitCodeIffOverallSuccess ==
    pc = "exited" /\ mode # "unresolved" =>
        (exit_code = 0 <=> \A i \in Dispatched : call[i] = "returned_true")

\* The ids of a workflow that are loaded, in the order the workflow declares.
DeclaredLoadedIds == SelectSeq(args.ids, LAMBDA id : id \in DOMAIN loaded)

\* C12: a workflow's id list is resolved by omitting the ids that are not
\* loaded, without an error, and the run proceeds with the remaining tasks
\* in their declared order.
C12_WorkflowResolution ==
    installed /\ command = "from-file" /\ args.selector = "workflow"
              /\ pc # "main" =>
        /\ mode \in {"sequential", "parallel"}
        /\ tasks = [k \in 1..Len(DeclaredLoadedIds) |->
                        loaded[DeclaredLoadedIds[k]]]
        /\ ~(pc = "exited" /\ Dispatched = {} /\ N > 0)

\* The workflow names "ghost" and then the second loaded task; the run was
\* made with that task alone and has ended.
C12_Witness ==
    /\ command = "from-file" /\ args.selector = "workflow"
    /\ Len(loaded) = 2 /\ args.ids = <<0, 2>>
    /\ pc = "exited"
    /\ N = 1 /\ tasks[1] = loaded[2]
    /\ call[1] = "returned_true"

\* C13 (as claimed): a workflow runs in its declared mode (sequential when
\* it declares none) unless the caller asks for sequential execution, which
\* then prevails.
C13_CallerOverridesWorkflowMode ==
    command = "from-file" /\ args.selector = "workflow"
                          /\ mode # "unresolved" =>
        mode = IF args.sequential THEN "sequential"
               ELSE IF args.wf_mode = "absent" THEN "sequential"
               ELSE args.wf_mode

\* C14 (as claimed): once the caller has signalled cancellation, no task
\* that has not been started is started.
C14_NoStartAfterCancel ==
    [][cancelled => \A i \in Idx : call[i] = "pending" => call'[i] = "pending"]_vars

\* What the external process of task i did, as the engine sees it under the
\* deadline it enforces.
TimedOut(i) == proc[i].spawn /\ proc[i].duration > Deadline(tasks[i])
Exited(i, codes) == proc[i].spawn /\ ~TimedOut(i) /\ proc[i].exit \in codes

\* C15: a call that has returned is classified completed exactly when the
\* process exited with code 0, failed exactly when it exited nonzero, error
\* exactly when it could not be spawned, timeout otherwise; only completed
\* is reported as success.
C15_Classification ==
    \A i \in Idx : call[i] \in {"returned_true", "returned_false"} =>
        /\ call[i] = "returned_true" <=> Exited(i, {0})
        /\ mode = "swarm" =>
            /\ status[i] = "completed" <=> Exited(i, {0})
            /\ status[i] = "failed" <=> Exited(i, ExitCodes \ {0})
            /\ status[i] = "error" <=> ~proc[i].spawn
            /\ status[i] = "timeout" <=> TimedOut(i)

\* Two agents have returned, one whose process exited nonzero and one whose
\* process could not be spawned.
C15_Witness ==
    /\ mode = "swarm"
    /\ \E i, j \in Idx :
        /\ call[i] = "returned_false" /\ Exited(i, {1}) /\ status[i] = "failed"
        /\ call[j] = "returned_false" /\ ~proc[j].spawn /\ status[j] = "error"

\* C16: once a call has returned, on whichever of its paths, the log file of
\* its task has been written by that call.
C16_LogOnEveryPath ==
    \A i \in Idx : call[i] \in {"returned_true", "returned_false"} => i \in logged

\* A call has returned on the timeout path and its log is written.
C16_Witness ==
    \E i \in Idx : TimedOut(i) /\ call[i] = "returned_false" /\ i \in logged

\* C17: without the binary the program exits nonzero before anything is
\* dispatched: no task list is built, no call entered, no process spawned.
C17_MissingBinaryAborts ==
    ~installed =>
        /\ pc \in {"main", "exited"}
        /\ pc = "exited" => exit_code = 1
        /\ mode = "unresolved"
        /\ Dispatched = {}
        /\ \A i \in DOMAIN proc : proc[i] = NoProc

\* The binary is missing and a from-file run over loaded tasks has exited.
C17_Witness ==
    /\ ~installed
    /\ command = "from-file" /\ Len(loaded) > 0
    /\ pc = "exited" /\ exit_code = 1

\* C18 (as claimed): a task definition with an empty prompt or a timeout
\* that is not positive is never executed.
C18_InvalidNeverExecuted ==
    \A i \in Idx :
        tasks[i].prompt = "" \/ tasks[i].timeout <= 0 => call[i] = "pending"

Terminal == {"completed", "failed", "timeout", "error"}

\* C19 (as claimed): an agent's status goes pending -> running -> terminal
\* and never changes after; when its run is over the status is terminal.
C19_StatusLifecycle ==
    mode = "swarm" =>
        \A i \in Idx :
            /\ call[i] = "pending" => status[i] = "pending"
            /\ call[i] = "running" => status[i] = "running"
            /\ CallEnded(i) => status[i] \in Terminal

\* C20 (as claimed): a swarm that has run its agents and finished has
\* written its summary, and no agent record of a written summary has status
\* pending or running.
C20_SummaryAfterAllTerminal ==
    mode = "swarm" =>
        /\ pc = "returned" /\ N > 0 => summary.written
        /\ summary.written =>
            \A i \in Idx : summary.agents[i].status \in Terminal

\* The result map the outcomes of the tasks give when the futures are
\* taken in declared order.
RECURSIVE CollectedInOrder(_)
CollectedInOrder(n) ==
    IF n = 0 THEN << >>
    ELSE Put(CollectedInOrder(n - 1), tasks[n].name, Collected(n))

\* C21 (as claimed): with the outcome of every task fixed, the counts and
\* the overall success a pooled run ends with are those of any other
\* completion order, the declared order among them.
C21_CompletionOrderIndependent ==
    Pooled /\ pc = "returned" =>
        /\ OverallSuccess(results) = OverallSuccess(CollectedInOrder(N))
        /\ CountTrue(results) = CountTrue(CollectedInOrder(N))
        /\ DOMAIN results = DOMAIN CollectedInOrder(N)

\* C22 (as claimed): when a call has returned on the timeout path, nothing
\* started for its task is still running.
C22_NothingLeftRunningAfterTimeout ==
    \A i \in Idx :
        call[i] = "returned_false" /\ TimedOut(i) => i \notin os.orphans

\* C23 (as claimed): no two distinct tasks of a run write the same log
\* file.
C23_LogPathsDistinct ==
    \A i, j \in logged : i # j => LogPath(i) # LogPath(j)

\* C24 (as claimed): the summary written has one record for each
\* dispatched agent, carrying the terminal status its run ended with.
C24_SummaryEnumeratesOutcomes ==
    summary.written =>
        /\ DOMAIN summary.agents = Dispatched
        /\ \A i \in DOMAIN summary.agents :
            /\ summary.agents[i].id = i - 1
            /\ summary.agents[i].status \in Terminal
            /\ summary.agents[i].status = status[i]

\* C25: in a pooled run the result map changes only in a step of the
\* collecting thread, which stores the one entry of a finished future it
\* had not taken yet; no step of a worker thread changes it.
C25_OnlyCollectorWritesResults ==
    [][Pooled /\ results' # results =>
        /\ worker' = worker /\ call' = call /\ proc' = proc
        /\ \E i \in Idx \ collected :
            /\ CallEnded(i)
            /\ collected' = collected \cup {i}
            /\ results' = Put(results, tasks[i].name, Collected(i))]_vars

\* The collecting thread has stored a result while a worker thread is
\* still executing another call.
C25_Witness ==
    /\ Pooled
    /\ results # << >>
    /\ \E w \in Workers : worker[w] # 0 /\ call[worker[w]] = "running"

PolicyTokens(a) ==
    IF a.repr = "list" THEN a.tokens
    ELSE SelectSeq(a.tokens, LAMBDA x : x # Blank)

\* C27 (as claimed): either representation of the policy is accepted, and
\* the command line run is the binary, -p, the prompt (and the headless
\* flag, if any), then the policy's tokens one by one in their order.
C27_ArgsFlattened ==
    \A i \in Idx :
        /\ call[i] # "raised"
        /\ i \in DOMAIN os.argv =>
            \E headless \in {<< >>, <<Str("--allow-all-paths")>>} :
                os.argv[i] =
                    <<Str("copilot"), Str("-p"), Str(tasks[i].prompt)>>
                    \o headless
                    \o [k \in 1..Len(PolicyTokens(tasks[i].approval)) |->
                            Str(PolicyTokens(tasks[i].approval)[k])]

C29_TaskDefinitionsImmutable ==
    [][tasks' = tasks /\ loaded' = loaded]_vars

\* A swarm has run to its end, the status of its first agent has changed,
\* and the agents are still as loaded.
C29_Witness ==
    /\ mode = "swarm" /\ pc = "returned"
    /\ N >= 1 /\ status[1] = "failed"
    /\ tasks = loaded

\* C30 (as claimed): in a written summary, successful is the number of
\* agent records with status completed, and failed the number of records
\* with status failed, timeout or error.
C30_CountsMatchRecords ==
    summary.written =>
        /\ summary.successful =
            Cardinality({i \in DOMAIN summary.agents :
                            summary.agents[i].status = "completed"})
        /\ summary.failed =
            Cardinality({i \in DOMAIN summary.agents :
                summary.agents[i].status \in {"failed", "timeout", "error"}})

C32_WorkerExceptionIsolated ==
    Pooled /\ pc = "returned" /\ (\E r \in Idx : call[r] = "raised") =>
        \A i \in Idx :
            /\ tasks[i].name \in DOMAIN results
            /\ results[tasks[i].name] = (call[i] = "returned_true")

\* C33: in parallel mode the stop-on-failure flag changes nothing: the run
\* ends only with every task of the list submitted and executed.
C33_StopOnFailureIgnoredInParallel ==
    mode = "parallel" /\ pc \in {"returned", "exited"} =>
        /\ submitted = N
        /\ \A i \in Idx : CallEnded(i)
        /\ \A i \in Idx : ~Raises(tasks[i]) => i \in DOMAIN os.argv

\* A parallel run asked to stop on failure has returned with its first task
\* unsuccessful and its second task executed all the same.
C33_Witness ==
    /\ mode = "parallel" /\ stop_on_failure /\ pc = "returned"
    /\ N = 2
    /\ call[1] = "returned_false" /\ call[2] = "returned_true"
    /\ 1 \in collected /\ 2 \in DOMAIN os.argv

\* C34: asking for a workflow the document does not define ends the program
\* with exit code 1, no task list built, no call entered, no command run.
C34_UndefinedWorkflowExits ==
    installed /\ command = "from-file" /\ args.selector = "undefined" =>
        /\ pc \in {"main", "exited"}
        /\ pc = "exited" => exit_code = 1
        /\ tasks = << >>
        /\ Dispatched = {}
        /\ os.argv = << >>

\* The program has exited on an undefined workflow, tasks being loaded.
C34_Witness ==
    /\ installed /\ command = "from-file" /\ args.selector = "undefined"
    /\ loaded # << >>
    /\ pc = "exited" /\ exit_code = 1

\* C35: the agents of a swarm carry the ids 0..n-1 in spawn order, each its
\* 0-based position in the agent list, and so no two agents have the same
\* log file, whatever their names.
C35_AgentIdsArePositions ==
    mode = "swarm" =>
        /\ Len(agent_id) = N
        /\ \A i \in Idx : agent_id[i] = i - 1
        /\ \A i, j \in Idx : i # j => LogPath(i) # LogPath(j)

\* Two agents of one name have run, and each has written a log of its own.
C35_Witness ==
    /\ mode = "swarm" /\ N = 2
    /\ tasks[1].name = tasks[2].name
    /\ agent_id = <<0, 1>>
    /\ LogPath(1) \in DOMAIN logs /\ LogPath(2) \in DOMAIN logs
    /\ Cardinality(DOMAIN logs) = 2

====
